---- MODULE Spec2Model ----
(***************************************************************************)
(* mpy-devices: discovery and version query of MicroPython boards.         *)
(*                                                                         *)
(*   SpecQ    one call of core.query_device, statement by statement        *)
(*   SpecCli  one run of cli.check_all_devices (first pass + retry pass)   *)
(*   SpecTui  tui.MPyDevicesApp: refreshes, worker threads, UI callbacks   *)
(*   SpecMain one run of cli.main                                          *)
(*   SpecFn   one call of resolve_shortcut, discover_devices, find_device   *)
(*            or parse_uname_output on arguments of a bounded set          *)
(*                                                                         *)
(* Text is a sequence of tokens.  A token is one character or one word     *)
(* that the code treats as a unit (a field name, the word unknown, the     *)
(* word timeout).                                                          *)
(***************************************************************************)
EXTENDS Integers, Sequences, FiniteSets, TLC

VARIABLES
    \* ---- core.query_device (one call) ----
    pc,             \* position in query_device
    calls,          \* transport calls made so far, in order
    received,       \* bytes the device sent during exec_raw
    output_str,     \* local output_str (core.py:214)
    exc,            \* exception caught by "except Exception as e" (core.py:223)
    result,         \* what the call returned or raised
    timeout,        \* parameter timeout of query_device, in ticks
    elapsed,        \* ticks spent inside enter_raw_repl and exec_raw
    \* ---- cli.check_all_devices ----
    cpc,            \* position in check_all_devices
    idx,            \* loop index of the running for-loop
    failed,         \* list "failed" (TUI: none)
    still_failed,   \* counter still_failed
    ret,            \* return retval of check_all_devices
    queries,        \* query_device calls made, in order: <<pass, path, outcome>>
    retries,        \* find_device calls of the retry pass, in order
    \* ---- shared name: devices of the CLI run / self.devices of the TUI ----
    devices,
    \* ---- tui.MPyDevicesApp ----
    versions,       \* self.versions: path -> Version or error
    rows,           \* row keys of the DataTable
    active_workers, \* self.active_workers
    query_stats,    \* self.query_stats
    workers,        \* the worker threads that are not over yet
    refreshes,      \* number of action_refresh runs so far
    quiet,          \* no worker was in flight when the last refresh ran
    running,        \* the app has not exited
    \* ---- one call of a function of core that keeps no state ----
    fpc,            \* "call" before the function ran, "return" after
    call,           \* the function and its arguments
    retval,         \* what it returned
    \* ---- cli.main (one run of the command) ----
    mpc,            \* position in main
    args,           \* the command line: device, --json, --list, --version
    target,         \* device.path handed to query_device
    ended,          \* what that query_device call ended with
    status          \* exit status of the process

qvars == <<pc, calls, received, output_str, exc, result, timeout, elapsed>>
cvars == <<cpc, idx, failed, still_failed, ret, queries, retries>>
tvars == <<versions, rows, active_workers, query_stats, workers, refreshes,
           quiet, running>>
fvars == <<fpc, call, retval>>
mvars == <<mpc, args, target, ended, status>>
vars  == <<qvars, cvars, devices, tvars, fvars, mvars>>

(***************************************************************************)
(* Bounds of the model.                                                    *)
(***************************************************************************)
MaxDevices   == 2   \* ports the platform enumerator can report
MaxRefreshes == 2   \* runs of action_refresh (the one of on_mount included)
MaxThreads   == 3   \* worker threads alive at once
MaxTimeout   == 2   \* largest timeout a caller passes, in ticks
MaxCatalog   == 3   \* ports of a catalog handed to discover_devices, find_device
MaxTokenLen  == 3   \* characters of a token handed to resolve_shortcut

Min(S) == CHOOSE x \in S : \A y \in S : x <= y

(***************************************************************************)
(* Text                                                                    *)
(***************************************************************************)
None    == <<"<None>">>          \* Python's None where a str is optional
UNKNOWN == <<"unknown">>         \* the literal "unknown"

RequiredFields == {"sysname", "release", "version", "machine"}

\* bytes.decode('utf-8', errors='replace'): an invalid byte becomes U+FFFD.
Decode(bytes) ==
    [i \in 1..Len(bytes) |-> IF bytes[i] = "\\xff" THEN "U+FFFD" ELSE bytes[i]]

\* str.strip(): leading and trailing whitespace removed.
RECURSIVE LStrip(_)
LStrip(s) == IF s # <<>> /\ Head(s) = " " THEN LStrip(Tail(s)) ELSE s
RECURSIVE RStrip(_)
RStrip(s) ==
    IF s # <<>> /\ s[Len(s)] = " " THEN RStrip(SubSeq(s, 1, Len(s) - 1)) ELSE s
Strip(s) == RStrip(LStrip(s))

\* "timeout" in s.lower()
HasTimeoutText(s) == \E i \in 1..Len(s) : s[i] \in {"timeout", "Timeout"}

\* re.search(rf"{field}=Q([^Q]*)Q", text) for the quote character q:
\* the leftmost position where the pattern matches; group 1 runs up to the
\* first following quote.
SearchQuoted(text, field, q) ==
    LET starts == {i \in 1..Len(text) :
                      /\ i + 3 <= Len(text)
                      /\ text[i] = field
                      /\ text[i + 1] = "="
                      /\ text[i + 2] = q
                      /\ \E j \in (i + 3)..Len(text) : text[j] = q}
    IN  IF starts = {} THEN None
        ELSE LET i == Min(starts)
                 j == Min({k \in (i + 3)..Len(text) : text[k] = q})
             IN  SubSeq(text, i + 3, j - 1)

\* extract_field: the single-quote pattern is searched over the whole text
\* first, the double-quote pattern only when it matched nowhere.
extract_field(text, field) ==
    IF SearchQuoted(text, field, "'") # None
    THEN SearchQuoted(text, field, "'")
    ELSE SearchQuoted(text, field, "\"")

\* Python's  x or "unknown"  : None and "" are both falsy.
OrUnknown(v) == IF v = None \/ v = <<>> THEN UNKNOWN ELSE v

MicroPythonVersion(output) ==
    [sysname  |-> OrUnknown(extract_field(output, "sysname")),
     release  |-> OrUnknown(extract_field(output, "release")),
     version  |-> OrUnknown(extract_field(output, "version")),
     machine  |-> OrUnknown(extract_field(output, "machine")),
     nodename |-> extract_field(output, "nodename")]

\* a test for truthy fields only
is_complete_Truthy(v) == \A f \in RequiredFields : v[f] # <<>>

is_complete(v) == \A f \in RequiredFields : v[f] # <<>> /\ v[f] # UNKNOWN

\* parse_uname_output: the Version, or ParseError whose message ends with
\* the raw output.
parse_uname_output(output) ==
    LET v == MicroPythonVersion(output)
    IN  IF is_complete(v)
        THEN [tag |-> "Version", version |-> v]
        ELSE [tag |-> "ParseError",
              msg |-> <<"Incomplete version data">> \o output]

(***************************************************************************)
(* What a device can send in answer to  print(os.uname()).                 *)
(***************************************************************************)
Fld(f, q, v) == <<f, "=", q>> \o v \o <<q>>
X == <<"x">>

Uname(q, machine) ==
    Fld("sysname", q, X) \o Fld("nodename", q, X) \o Fld("release", q, X)
        \o Fld("version", q, X) \o Fld("machine", q, machine)

DeviceBytes ==
    { Uname("'", X),                                  \* the expected record
      Uname("\"", X),                                 \* double-quoted
      <<" ">> \o Uname("'", <<"x", "\\xff">>) \o <<" ">>,
      Uname("'", <<"timeout">>),                      \* complete, says timeout
      Uname("'", UNKNOWN),                            \* machine='unknown'
      Uname("'", <<>>),                               \* machine=''
      Fld("sysname", "'", X),                         \* only sysname
      <<"x", "timeout", "x">>,                        \* a traceback text
      <<>> }                                          \* nothing at all

(***************************************************************************)
(* core.query_device                                                       *)
(***************************************************************************)
NoExc    == [step |-> "none", kind |-> "none", msg |-> <<>>]
NoResult == [tag |-> "none"]

\* What a failing transport call raises.  kind: whether the timeout elapsed
\* ("timeout") or something else went wrong ("other").  msg: str(e), which
\* the transport library chooses.
TransportMsgs == { <<"x">>, <<"timeout", "x">>, <<"Timeout">> }
Raised(step, kinds) ==
    {[step |-> step, kind |-> k, msg |-> m] : k \in kinds, m \in TransportMsgs}

\* A call that is given the limit t blocks for 0..t ticks; it raises for the
\* timeout only when the whole of t has gone by, and for any other reason at
\* any moment.
Kinds(d, t) == IF d = t THEN {"timeout", "other"} ELSE {"other"}

QInit ==
    /\ pc = "import"
    /\ calls = <<>>
    /\ received = <<>>
    /\ output_str = <<>>
    /\ exc = NoExc
    /\ result = NoResult
    /\ timeout \in 1..MaxTimeout
    /\ elapsed = 0

\* core.py:172-196  import of SerialTransport.  When the package is not
\* installed the code walks up from Path.cwd() looking for tools/mpremote;
\* only ImportError is caught there, so the OSError that Path.cwd() raises
\* when the working directory no longer exists leaves query_device as it is.
QImport ==
    /\ pc = "import"
    /\ \/ pc' = "connect" /\ result' = result
       \/ pc' = "done" /\ result' = [tag |-> "DeviceError", msg |-> <<"mpremote not found">>]
       \/ pc' = "done" /\ result' = [tag |-> "FileNotFoundError", msg |-> <<"x">>]
    /\ UNCHANGED <<calls, received, output_str, exc, timeout, elapsed, cvars, devices, tvars, fvars, mvars>>

\* QConnect, but a failed open is tried again.
QConnect_Retry ==
    /\ pc = "connect"
    /\ calls' = Append(calls, "open")
    /\ \/ pc' = "enter_raw_repl" /\ result' = result
       \/ pc' = "connect" /\ result' = result
       \/ pc' = "done" /\ result' = [tag |-> "DeviceNotFoundError", msg |-> <<"x">>]
    /\ UNCHANGED <<received, output_str, exc, timeout, elapsed, cvars, devices, tvars, fvars, mvars>>

\* core.py:198-205  resolve the shortcut, open the transport
QConnect ==
    /\ pc = "connect"
    /\ calls' = Append(calls, "open")
    /\ \/ pc' = "enter_raw_repl" /\ result' = result
       \/ pc' = "done" /\ result' = [tag |-> "DeviceNotFoundError", msg |-> <<"x">>]
    /\ UNCHANGED <<received, output_str, exc, timeout, elapsed, cvars, devices, tvars, fvars, mvars>>

\* QEnterRawRepl, but a failed enter_raw_repl may be tried again.
QEnterRawRepl_Retry ==
    /\ pc = "enter_raw_repl"
    /\ calls' = Append(calls, "enter_raw_repl")
    /\ \E d \in 0..timeout :
         /\ elapsed' = elapsed + d
         /\ \/ pc' = "exec_raw" /\ exc' = exc
            \/ \E e \in Raised("enter_raw_repl", Kinds(d, timeout)) :
                 pc' \in {"except", "enter_raw_repl"} /\ exc' = e
    /\ UNCHANGED <<received, output_str, result, timeout, cvars, devices, tvars, fvars, mvars>>

\* core.py:209  transport.enter_raw_repl(soft_reset=False, timeout_overall=timeout)
\* The call is handed the caller's timeout as its own limit.
QEnterRawRepl ==
    /\ pc = "enter_raw_repl"
    /\ calls' = Append(calls, "enter_raw_repl")
    /\ \E d \in 0..timeout :
         /\ elapsed' = elapsed + d
         /\ \/ pc' = "exec_raw" /\ exc' = exc
            \/ \E e \in Raised("enter_raw_repl", Kinds(d, timeout)) :
                 pc' = "except" /\ exc' = e
    /\ UNCHANGED <<received, output_str, result, timeout, cvars, devices, tvars, fvars, mvars>>

\* core.py:213-214  output, _ = transport.exec_raw(...); decode and strip.
\* The device sends a prefix of its answer before a timeout or an error.
\* exec_raw is handed the caller's timeout again, as its own limit.
QExecRaw ==
    /\ pc = "exec_raw"
    /\ calls' = Append(calls, "exec_raw")
    /\ \E bytes \in DeviceBytes, d \in 0..timeout :
         /\ elapsed' = elapsed + d
         /\ \/ /\ received' = bytes
               /\ output_str' = Strip(Decode(bytes))
               /\ pc' = "exit_raw_repl"
               /\ exc' = exc
            \/ \E n \in {0, Len(bytes)},
                  e \in Raised("exec_raw", Kinds(d, timeout)) :
               /\ received' = SubSeq(bytes, 1, n)
               /\ output_str' = output_str
               /\ pc' = "except"
               /\ exc' = e
    /\ UNCHANGED <<result, timeout, cvars, devices, tvars, fvars, mvars>>

\* core.py:217  transport.exit_raw_repl()
QExitRawRepl ==
    /\ pc = "exit_raw_repl"
    /\ calls' = Append(calls, "exit_raw_repl")
    /\ \/ pc' = "close" /\ exc' = exc
       \/ \E e \in Raised("exit_raw_repl", {"other"}) : pc' = "except" /\ exc' = e
    /\ UNCHANGED <<received, output_str, result, timeout, elapsed, cvars,
                   devices, tvars, fvars, mvars>>

\* core.py:218  transport.close()
QClose ==
    /\ pc = "close"
    /\ calls' = Append(calls, "close")
    /\ \/ pc' = "parse" /\ exc' = exc
       \/ \E e \in Raised("close", {"other"}) : pc' = "except" /\ exc' = e
    /\ UNCHANGED <<received, output_str, result, timeout, elapsed, cvars,
                   devices, tvars, fvars, mvars>>

\* core.py:221  return parse_uname_output(output_str), inside the try block
QParse ==
    /\ pc = "parse"
    /\ LET r == parse_uname_output(output_str)
       IN  IF r.tag = "Version"
           THEN pc' = "done" /\ result' = r /\ exc' = exc
           ELSE /\ pc' = "except"
                /\ exc' = [step |-> "parse", kind |-> "parse", msg |-> r.msg]
                /\ result' = result
    /\ UNCHANGED <<calls, received, output_str, timeout, elapsed, cvars, devices, tvars, fvars, mvars>>

\* core.py:229-232  the class of the error raised for the caught exception
Classify(e) ==
    IF HasTimeoutText(e.msg) THEN "QueryTimeoutError" ELSE "DeviceError"

\* core.py:223-232  except Exception: close (errors swallowed), re-raise
QExcept ==
    /\ pc = "except"
    /\ calls' = Append(calls, "close")
    /\ result' = [tag |-> Classify(exc), msg |-> exc.msg]
    /\ pc' = "done"
    /\ UNCHANGED <<received, output_str, exc, timeout, elapsed, cvars, devices, tvars, fvars, mvars>>

QNext ==
    \/ QImport
    \/ QConnect
    \/ QEnterRawRepl
    \/ QExecRaw
    \/ QExitRawRepl
    \/ QClose
    \/ QParse
    \/ QExcept


QIdle == QInit /\ timeout = 1

(***************************************************************************)
(* core.DeviceInfo, core.resolve_shortcut, core.discover_devices,          *)
(* core.find_device                                                        *)
(***************************************************************************)
Digits == <<"0", "1", "2", "3", "4", "5", "6", "7", "8", "9">>
IsDigit(t) == \E i \in 1..Len(Digits) : Digits[i] = t

\* Code-point order of the first character of each token; no token of a
\* path is a prefix of another one.
TokRank(t) ==
    CASE t = "/dev/ttyACM" -> 1
      [] t = "/dev/ttyS"   -> 2
      [] t = "/dev/ttyUSB" -> 3
      [] IsDigit(t)        -> 10 + Min({i \in 1..Len(Digits) : Digits[i] = t})
      [] t = "COM"         -> 30
      [] t = "SN"          -> 31
      [] t = "a"           -> 40
      [] t = "c"           -> 41
      [] t = "u"           -> 42
      [] OTHER             -> 50

\* Python's  a < b  on str
RECURSIVE StrLess(_, _)
StrLess(a, b) ==
    IF a = <<>> THEN b # <<>>
    ELSE IF b = <<>> THEN FALSE
    ELSE IF Head(a) = Head(b) THEN StrLess(Tail(a), Tail(b))
    ELSE TokRank(Head(a)) < TokRank(Head(b))

AllDigits(s) == s # <<>> /\ \A i \in 1..Len(s) : IsDigit(s[i])

\* re.match(rf"^{letter}(\d+)$", device): group 1 of the match, None when
\* there is none.  "$" matches at the end of the string and also just before
\* a newline that ends the string.
ShortcutDigits(device, letter) ==
    LET body == IF device # <<>> /\ device[Len(device)] = "\n"
                THEN SubSeq(device, 2, Len(device) - 1)
                ELSE SubSeq(device, 2, Len(device))
    IN  IF device # <<>> /\ Head(device) = letter /\ AllDigits(body)
        THEN body ELSE None

\* core.py:71-89
resolve_shortcut(device) ==
    IF ShortcutDigits(device, "a") # None
    THEN <<"/dev/ttyACM">> \o ShortcutDigits(device, "a")
    ELSE IF ShortcutDigits(device, "u") # None
    THEN <<"/dev/ttyUSB">> \o ShortcutDigits(device, "u")
    ELSE IF ShortcutDigits(device, "c") # None
    THEN <<"COM">> \o ShortcutDigits(device, "c")
    ELSE device

\* A port record of serial.tools.list_ports.comports(); "link" is the
\* symlink of /dev/serial/by-id that points at the port, if there is one.
\* Board 0 reports a serial number and USB ids and has a by-id symlink; the
\* other boards report none of them.  A board keeps them at whatever path
\* the system enumerates it.
AcmPort(i, board) ==
    [device        |-> <<"/dev/ttyACM", Digits[i + 1]>>,
     serial_number |-> IF board = 0 THEN <<"SN", "0">> ELSE None,
     vid           |-> IF board = 0 THEN <<"int", "1">> ELSE None,
     pid           |-> IF board = 0 THEN <<"int", "1">> ELSE None,
     link          |-> IF board = 0 THEN <<"/dev/serial/by-id/", "0">> ELSE None]

UartPort ==
    [device |-> <<"/dev/ttyS", "0">>, serial_number |-> None,
     vid |-> None, pid |-> None, link |-> None]

\* The ports as the system first enumerates them: board 0 at /dev/ttyACM0.
PortUniverse ==
    {AcmPort(i, IF i = 0 THEN 0 ELSE 1) : i \in 0..(MaxDevices - 1)}
        \cup {UartPort}

\* What comports() can return: any set of attached ports.
PortSets == SUBSET PortUniverse

\* What comports() can return once boards have been unplugged, plugged in
\* again or reset: a board may come back under another path.  A path names
\* one port and a board is attached once.
PortSetsLater ==
    {ports \in SUBSET ({AcmPort(i, board) : i \in 0..(MaxDevices - 1),
                                            board \in {0, 1}}
                           \cup {UartPort}) :
        \A p, q \in ports :
            (p.device = q.device
                \/ (p.serial_number # None
                        /\ p.serial_number = q.serial_number)) => p = q}

\* sorted(ports, key=lambda p: p.device)
RECURSIVE SortedByDevice(_)
SortedByDevice(ports) ==
    IF ports = {} THEN <<>>
    ELSE LET first == CHOOSE p \in ports :
                        \A o \in ports \ {p} : StrLess(p.device, o.device)
         IN  <<first>> \o SortedByDevice(ports \ {first})

\* isinstance(v, int); a value is None or <<type, digits...>>
IsInt(v) == v # None /\ v # <<>> /\ Head(v) = "int"

\* core.py:137-149
DeviceInfo(port) ==
    [path          |-> port.device,
     serial_number |-> port.serial_number,
     vid           |-> IF IsInt(port.vid) THEN port.vid ELSE None,
     pid           |-> IF IsInt(port.pid) THEN port.pid ELSE None,
     by_id_path    |-> port.link]

\* a filter that ignores the flag
Skipped_Always(port, include_ttyS) ==
    port.device # <<>> /\ Head(port.device) = "/dev/ttyS"

\* core.py:133  the ports the loop skips
Skipped(port, include_ttyS) ==
    ~include_ttyS /\ port.device # <<>> /\ Head(port.device) = "/dev/ttyS"

RECURSIVE BuildDevices(_, _)
BuildDevices(sorted, include_ttyS) ==
    IF sorted = <<>> THEN <<>>
    ELSE IF Skipped(Head(sorted), include_ttyS)
    THEN BuildDevices(Tail(sorted), include_ttyS)
    ELSE <<DeviceInfo(Head(sorted))>> \o BuildDevices(Tail(sorted), include_ttyS)

\* core.py:119-153
discover_devices(ports, include_ttyS) ==
    BuildDevices(SortedByDevice(ports), include_ttyS)

\* find_device's None
NoDevice ==
    [path |-> None, serial_number |-> None, vid |-> None, pid |-> None,
     by_id_path |-> None]

\* the last device of the list among those at the positions "hits"
FirstOf_Last(devs, hits) ==
    IF hits = {} THEN NoDevice
    ELSE devs[CHOOSE i \in hits : \A j \in hits : j <= i]

\* the first device of the list among those at the positions "hits"
FirstOf(devs, hits) == IF hits = {} THEN NoDevice ELSE devs[Min(hits)]

\* core.py:286-317
find_device(ports, device_identifier) ==
    LET resolved == resolve_shortcut(device_identifier)
        devs     == discover_devices(ports, TRUE)
        ByPath   == {i \in 1..Len(devs) :
                        \/ devs[i].path = resolved
                        \/ devs[i].path = device_identifier}
        ById     == {i \in 1..Len(devs) :
                        /\ devs[i].by_id_path # None
                        /\ devs[i].by_id_path # <<>>
                        /\ devs[i].by_id_path = device_identifier}
        BySerial == {i \in 1..Len(devs) :
                        /\ devs[i].serial_number # None
                        /\ devs[i].serial_number # <<>>
                        /\ devs[i].serial_number = device_identifier}
    IN  IF ByPath # {} THEN FirstOf(devs, ByPath)
        ELSE IF ById # {} THEN FirstOf(devs, ById)
        ELSE FirstOf(devs, BySerial)

Paths(devs) == {devs[i].path : i \in 1..Len(devs)}

(***************************************************************************)
(* cli.check_all_devices                                                   *)
(***************************************************************************)
\* What a query_device call ends with: the Version or one of the errors
\* it raises (core.py:193, 205, 230, 232).
QueryErrors   == {"DeviceError", "DeviceNotFoundError", "QueryTimeoutError"}
\* an exception query_device lets through as it is (core.py:180)
Escapes       == {"FileNotFoundError"}
QueryOutcomes == {"Version"} \cup QueryErrors \cup Escapes

\* an except clause that also takes the normal return for a failure
Caught_All(outcome) == outcome \in QueryOutcomes

\* cli.py:114, 138  except (DeviceError, ParseError, QueryTimeoutError)
Caught(outcome) == outcome \in QueryErrors \cup {"ParseError"}

\* where check_all_devices is after a query_device call that ended with
\* "outcome": an exception no handler takes leaves the function
After(outcome, here) ==
    IF outcome = "Version" \/ Caught(outcome) THEN here ELSE "raised"

CInit ==
    /\ cpc = "discover"
    /\ idx = 1
    /\ failed = <<>>
    /\ still_failed = 0
    /\ ret = -1
    /\ queries = <<>>
    /\ retries = <<>>

CIdle ==
    /\ cpc = "idle"
    /\ idx = 1
    /\ failed = <<>>
    /\ still_failed = 0
    /\ ret = -1
    /\ queries = <<>>
    /\ retries = <<>>

\* cli.py:98-107
CDiscover ==
    /\ cpc = "discover"
    /\ \E ports \in PortSets :
         /\ devices' = discover_devices(ports, FALSE)
         /\ IF devices' = <<>>
            THEN cpc' = "done" /\ ret' = 0
            ELSE cpc' = "first" /\ ret' = ret
    /\ UNCHANGED <<idx, failed, still_failed, queries, retries, qvars, tvars, fvars, mvars>>

\* cli.py:108-120  one iteration of the first pass
CFirstPass ==
    /\ cpc = "first"
    /\ idx <= Len(devices)
    /\ \E outcome \in QueryOutcomes :
         /\ queries' = Append(queries,
                [pass |-> 1, path |-> devices[idx].path, outcome |-> outcome])
         /\ failed' = IF Caught(outcome)
                      THEN Append(failed, devices[idx].path) ELSE failed
         /\ cpc' = After(outcome, cpc)
    /\ idx' = idx + 1
    /\ UNCHANGED <<still_failed, ret, retries, devices, qvars, tvars, fvars, mvars>>

\* cli.py:123-127  the first loop is over; "if failed:"
CRetryStart ==
    /\ cpc = "first"
    /\ idx > Len(devices)
    /\ failed # <<>>
    /\ cpc' = "retry"
    /\ idx' = 1
    /\ still_failed' = 0
    /\ UNCHANGED <<failed, ret, queries, retries, devices, qvars, tvars, fvars, mvars>>

\* a device that is not found counts as one that still fails
NotFound_Counted(tally) == tally + 1

\* cli.py:130-131  "if not device: continue": the tally stays as it is
NotFound(tally) == tally

\* Where the board that was queried at "path" in the first pass is attached
\* now, for a board that can be told apart by its serial number.
NowAt(ports, path) ==
    LET first == CHOOSE i \in 1..Len(devices) : devices[i].path = path
        same  == {p \in ports :
                    /\ devices[first].serial_number # None
                    /\ p.serial_number = devices[first].serial_number}
    IN  IF same = {} THEN None ELSE (CHOOSE p \in same : TRUE).device

\* cli.py:128-144  one iteration of the retry pass
CRetry ==
    /\ cpc = "retry"
    /\ idx <= Len(failed)
    /\ \E ports \in PortSetsLater :
         LET device == find_device(ports, failed[idx])
         IN  IF device = NoDevice
             THEN /\ still_failed' = NotFound(still_failed)
                  /\ queries' = queries
                  /\ cpc' = cpc
                  /\ retries' = Append(retries,
                        [identifier |-> failed[idx], found |-> None,
                         now_at |-> NowAt(ports, failed[idx]), query |-> 0])
             ELSE \E outcome \in QueryOutcomes :
                    /\ queries' = Append(queries,
                          [pass |-> 2, path |-> device.path, outcome |-> outcome])
                    /\ still_failed' = IF Caught(outcome)
                                       THEN still_failed + 1 ELSE still_failed
                    /\ retries' = Append(retries,
                          [identifier |-> failed[idx], found |-> device.path,
                           now_at |-> NowAt(ports, failed[idx]),
                           query |-> Len(queries) + 1])
                    /\ cpc' = After(outcome, cpc)
    /\ idx' = idx + 1
    /\ UNCHANGED <<failed, ret, devices, qvars, tvars, fvars, mvars>>

\* a tally that counts every device of the retry list
ReturnValue_AllRetried == Len(failed)

\* cli.py:152, 154  the value returned once the loops are over
ReturnValue == IF failed # <<>> THEN still_failed ELSE 0

\* cli.py:146-154
CReturn ==
    /\ \/ cpc = "first" /\ idx > Len(devices) /\ failed = <<>>
       \/ cpc = "retry" /\ idx > Len(failed)
    /\ cpc' = "done"
    /\ ret' = ReturnValue
    /\ UNCHANGED <<idx, failed, still_failed, queries, retries, devices, qvars,
                   tvars, fvars, mvars>>

CNext ==
    \/ CDiscover
    \/ CFirstPass
    \/ CRetryStart
    \/ CRetry
    \/ CReturn


(***************************************************************************)
(* One call of a function of core that keeps no state: resolve_shortcut,   *)
(* discover_devices, find_device, parse_uname_output.  The arguments are   *)
(* fixed when the call is made.                                            *)
(***************************************************************************)
\* Tokens a caller can pass to resolve_shortcut: any text of these characters.
TokenChars == {"a", "u", "c", "A", "0", "7", "x", "\n"}
RECURSIVE TextsUpTo(_)
TextsUpTo(n) ==
    IF n = 0 THEN {<<>>}
    ELSE LET shorter == TextsUpTo(n - 1)
         IN  shorter \cup {Append(t, ch) : t \in shorter, ch \in TokenChars}
Tokens == TextsUpTo(MaxTokenLen)

\* Catalogs: every path is free or holds a port with some serial number
\* (any text the board's firmware chose) and some by-id symlink; a symlink
\* points at one port.
CatalogPaths ==
    { <<"/dev/ttyACM", "0">>, <<"/dev/ttyACM", "1">>, <<"/dev/ttyS", "0">>,
      <<"/dev/ttyUSB", "0">> }
Serials == {None, <<"SN", "0">>, <<"u", "0">>, <<"/dev/serial/by-id/", "0">>}
Links   == {None, <<"/dev/serial/by-id/", "0">>}
Absent  == [serial_number |-> <<"absent">>, link |-> None]
Attached ==
    {[serial_number |-> sn, link |-> l] : sn \in Serials, l \in Links}
\* port.vid and port.pid as the enumerator reports them: an int, None, or
\* something that is not an int.  The port at /dev/ttyACM0 reports both, the
\* one at /dev/ttyACM1 a vid only, the one at /dev/ttyUSB0 a pid only (its
\* vid is a str), the hardware UART neither.
PortVid(path) ==
    CASE path = <<"/dev/ttyACM", "0">> -> <<"int", "1">>
      [] path = <<"/dev/ttyACM", "1">> -> <<"int", "1">>
      [] path = <<"/dev/ttyUSB", "0">> -> <<"str", "1">>
      [] OTHER                         -> None
PortPid(path) ==
    CASE path = <<"/dev/ttyACM", "0">> -> <<"int", "2">>
      [] path = <<"/dev/ttyUSB", "0">> -> <<"int", "2">>
      [] OTHER                         -> None
PortsOf(layout) ==
    {[device |-> path, serial_number |-> layout[path].serial_number,
      vid |-> PortVid(path), pid |-> PortPid(path), link |-> layout[path].link]
        : path \in {q \in CatalogPaths : layout[q] # Absent}}
Catalogs ==
    {ports \in {PortsOf(layout) :
                    layout \in [CatalogPaths -> Attached \cup {Absent}]} :
        /\ Cardinality(ports) <= MaxCatalog
        /\ \A p, q \in ports : (p.link # None /\ p.link = q.link) => p = q}

\* Identifiers a caller can pass to find_device.
Identifiers ==
    { <<"u", "0">>, <<"a", "1">>, <<"/dev/ttyUSB", "0">>, <<"/dev/ttyS", "0">>,
      <<"SN", "0">>, <<"/dev/serial/by-id/", "0">>, <<"x">> }

\* Texts handed to parse_uname_output: each required field is missing, or
\* written in one of these ways.
FieldForms(f) ==
    { <<>>,
      Fld(f, "'", X),
      Fld(f, "\"", X),
      Fld(f, "'", <<>>),
      Fld(f, "'", UNKNOWN),
      Fld(f, "\"", UNKNOWN),
      Fld(f, "\"", <<"y">>) \o Fld(f, "'", X),
      <<f, "=", "'", "x">> }
UnameTexts ==
    {a \o b \o c \o d : a \in FieldForms("sysname"), b \in FieldForms("release"),
                        c \in FieldForms("version"), d \in FieldForms("machine")}

NoPorts == {}
Call(fn, text, ports, flag) ==
    [fn |-> fn, text |-> text, ports |-> ports, include_ttyS |-> flag]

FInit ==
    /\ fpc = "call"
    /\ retval = <<>>
    /\ call \in
         {Call("resolve_shortcut", t, NoPorts, FALSE) : t \in Tokens}
         \cup {Call("discover_devices", <<>>, ports, flag) :
                  ports \in Catalogs, flag \in BOOLEAN}
         \cup {Call("find_device", id, ports, TRUE) :
                  id \in Identifiers, ports \in Catalogs}
         \cup {Call("parse_uname_output", t, NoPorts, FALSE) : t \in UnameTexts}

FIdle ==
    /\ fpc = "idle"
    /\ retval = <<>>
    /\ call = Call("none", <<>>, NoPorts, FALSE)

\* core.py:71-89
FResolve ==
    /\ fpc = "call" /\ call.fn = "resolve_shortcut"
    /\ retval' = resolve_shortcut(call.text)
    /\ fpc' = "return"
    /\ UNCHANGED <<call, qvars, cvars, devices, tvars, mvars>>

\* core.py:119-153
FDiscover ==
    /\ fpc = "call" /\ call.fn = "discover_devices"
    /\ retval' = discover_devices(call.ports, call.include_ttyS)
    /\ fpc' = "return"
    /\ UNCHANGED <<call, qvars, cvars, devices, tvars, mvars>>

\* core.py:286-317
FFind ==
    /\ fpc = "call" /\ call.fn = "find_device"
    /\ retval' = find_device(call.ports, call.text)
    /\ fpc' = "return"
    /\ UNCHANGED <<call, qvars, cvars, devices, tvars, mvars>>

\* core.py:235-283
FParse ==
    /\ fpc = "call" /\ call.fn = "parse_uname_output"
    /\ retval' = parse_uname_output(call.text)
    /\ fpc' = "return"
    /\ UNCHANGED <<call, qvars, cvars, devices, tvars, mvars>>

FNext ==
    \/ FResolve
    \/ FDiscover
    \/ FFind
    \/ FParse

(***************************************************************************)
(* cli.main, cli.check_single_device, cli.check_device_json                *)
(***************************************************************************)
\* The DEVICE argument: not given, empty, or one of the identifiers.
DeviceArgs == {None, <<>>} \cup Identifiers

\* Python's truth value of the argument
Given(device) == device # None /\ device # <<>>

MInit ==
    /\ mpc = "main"
    /\ args \in [device : DeviceArgs, json_mode : BOOLEAN, list_mode : BOOLEAN,
                 show_version : BOOLEAN]
    /\ target = None
    /\ ended = "none"
    /\ status = -1

MIdle ==
    /\ mpc = "idle"
    /\ args = [device |-> None, json_mode |-> FALSE, list_mode |-> FALSE,
               show_version |-> FALSE]
    /\ target = None
    /\ ended = "none"
    /\ status = -1

\* cli.py:47-55, 206-211  find_device, else a DeviceInfo of the resolved path
PathToQuery(ports, device_path) ==
    IF find_device(ports, device_path) # NoDevice
    THEN find_device(ports, device_path).path
    ELSE resolve_shortcut(device_path)

\* main returns where it does not call sys.exit: the process ends with 0
ReturnsNormally == 0

\* cli.py:266-287  main up to the call it dispatches to; --version, the two
\* listings end the run here
MMain ==
    /\ mpc = "main"
    /\ IF args.show_version
       THEN mpc' = "done" /\ status' = 0
       ELSE IF args.json_mode
       THEN IF Given(args.device)
            THEN mpc' = "check_device_json" /\ status' = status
            ELSE mpc' = "done" /\ status' = ReturnsNormally
       ELSE IF args.list_mode
       THEN mpc' = "done" /\ status' = ReturnsNormally
       ELSE IF Given(args.device)
       THEN mpc' = "check_single_device" /\ status' = status
       ELSE mpc' = "run_tui" /\ status' = status
    /\ UNCHANGED <<args, target, ended, qvars, cvars, devices, tvars, fvars>>

\* cli.py:45-88 with cli.py:285-287: True for a Version, False for an error
\* of the three handlers, then sys.exit(0 if success else 1); any other
\* exception ends the process with a traceback and status 1
MCheckSingleDevice ==
    /\ mpc = "check_single_device"
    /\ \E ports \in PortSets, o \in QueryOutcomes :
         /\ target' = PathToQuery(ports, args.device)
         /\ ended' = o
         /\ status' = IF o = "Version" THEN 0 ELSE 1
    /\ mpc' = "done"
    /\ UNCHANGED <<args, qvars, cvars, devices, tvars, fvars>>

\* cli.py:204-240 with cli.py:271-275: "except Exception" puts the error
\* into the JSON document, and main returns
MCheckDeviceJson ==
    /\ mpc = "check_device_json"
    /\ \E ports \in PortSets, o \in QueryOutcomes :
         /\ target' = PathToQuery(ports, args.device)
         /\ ended' = o
    /\ status' = ReturnsNormally
    /\ mpc' = "done"
    /\ UNCHANGED <<args, qvars, cvars, devices, tvars, fvars>>

\* cli.py:289-301  run_tui returns or is interrupted (0), or raises (1)
MRunTui ==
    /\ mpc = "run_tui"
    /\ status' \in {0, 1}
    /\ mpc' = "done"
    /\ UNCHANGED <<args, target, ended, qvars, cvars, devices, tvars, fvars>>

MNext ==
    \/ MMain
    \/ MCheckSingleDevice
    \/ MCheckDeviceJson
    \/ MRunTui

(***************************************************************************)
(* tui.MPyDevicesApp                                                       *)
(*                                                                         *)
(* A worker is a thread (tui.py:231), named here by the refresh that       *)
(* spawned it and the path of its device.  "workers" holds the threads     *)
(* that are not over yet.  phase is where the thread is:                   *)
(*   "query"    about to call core.query_device                            *)
(*   "holding"  inside query_device, serial transport open                 *)
(*   "success"  query_device returned; call_from_thread(update_device_     *)
(*              success) not yet run by the main thread                    *)
(*   "failure"  an exception was caught at tui.py:244;                     *)
(*              call_from_thread(update_device_failure) not yet run        *)
(* cancelled is what Worker.cancel() sets; the thread body                 *)
(* (tui.py:239-246) never reads it.                                        *)
(***************************************************************************)
EmptyMap == [p \in {} |-> "error"]
Range(s) == {s[i] : i \in 1..Len(s)}

WorkerId(wk) == <<wk.gen, wk.path>>
AllDone == workers = {}

TInit ==
    /\ versions = EmptyMap
    /\ rows = {}
    /\ active_workers = <<>>
    /\ query_stats = [total |-> 0, completed |-> 0, success |-> 0, failed |-> 0]
    /\ workers = {}
    /\ refreshes = 0
    /\ quiet = TRUE
    /\ running = TRUE

TIdle == TInit

\* tui.py:308-313  cancel_workers: every worker of the list whose thread is
\* not over (state not SUCCESS, ERROR or CANCELLED) is cancelled.
Cancelled(ws, active) ==
    {IF WorkerId(wk) \in Range(active) THEN [wk EXCEPT !.cancelled = TRUE] ELSE wk
        : wk \in ws}

\* tui.py:225-227  one worker per device
Spawned(devs, gen) ==
    {[gen |-> gen, path |-> devs[i].path, phase |-> "query", cancelled |-> FALSE]
        : i \in 1..Len(devs)}

\* tui.py:206-229
start_device_queries(devs) ==
    /\ workers' = Cancelled(workers, active_workers) \cup Spawned(devs, refreshes + 1)
    /\ active_workers' = [i \in 1..Len(devs) |-> <<refreshes + 1, devs[i].path>>]
    /\ query_stats' = [total |-> Len(devs), completed |-> 0, success |-> 0,
                       failed |-> 0]

\* tui.py:173-204 (run by on_mount and by the key "r")
action_refresh ==
    /\ running
    /\ refreshes < MaxRefreshes
    /\ \E ports \in PortSets :
         LET devs == discover_devices(ports, FALSE)
         IN  /\ Cardinality(workers) + Len(devs) <= MaxThreads
             /\ devices' = devs
             /\ versions' = EmptyMap
             /\ rows' = Paths(devs)
             /\ IF devs = <<>>
                THEN UNCHANGED <<workers, active_workers, query_stats>>
                ELSE start_device_queries(devs)
    /\ refreshes' = refreshes + 1
    /\ quiet' = AllDone
    /\ UNCHANGED <<running, qvars, cvars, fvars, mvars>>

\* the thread of wk moves to another phase
Moved(wk, phase) == (workers \ {wk}) \cup {[wk EXCEPT !.phase = phase]}

\* tui.py:240 with core.py:172-205: query_device up to the open of the
\* transport.  The open is not told about other holders of the port.
WorkerConnect(wk) ==
    /\ running
    /\ wk.phase = "query"
    /\ \/ workers' = Moved(wk, "holding")
       \/ workers' = Moved(wk, "failure")
    /\ UNCHANGED <<devices, versions, rows, active_workers, query_stats,
                   refreshes, quiet, running, qvars, cvars, fvars, mvars>>

\* tui.py:240 with core.py:207-232: the rest of query_device; the transport
\* is closed when it returns or raises.
WorkerQuery(wk) ==
    /\ running
    /\ wk.phase = "holding"
    /\ \/ workers' = Moved(wk, "success")
       \/ workers' = Moved(wk, "failure")
    /\ UNCHANGED <<devices, versions, rows, active_workers, query_stats,
                   refreshes, quiet, running, qvars, cvars, fvars, mvars>>

\* a store that loses the entry
Store_Lost(vs, path, value) == vs

\* tui.py:253, 272  self.versions[device.path] = value
Store(vs, path, value) ==
    [p \in DOMAIN vs \cup {path} |-> IF p = path THEN value ELSE vs[p]]

\* tui.py:248-265, run on the main thread by call_from_thread (tui.py:242).
\* update_cell raises when the table has no row of that key; the exception
\* reaches the thread and is caught at tui.py:244.
update_device_success(wk) ==
    /\ running
    /\ wk.phase = "success"
    /\ versions' = Store(versions, wk.path, "Version")
    /\ IF wk.path \in rows
       THEN /\ query_stats' = [query_stats EXCEPT !.completed = @ + 1,
                                                  !.success = @ + 1]
            /\ workers' = workers \ {wk}
       ELSE /\ query_stats' = query_stats
            /\ workers' = Moved(wk, "failure")
    /\ UNCHANGED <<devices, rows, active_workers, refreshes, quiet, running,
                   qvars, cvars, fvars, mvars>>

\* tui.py:267-280, run on the main thread by call_from_thread (tui.py:246).
\* An exception of update_cell leaves the thread function; a worker that
\* fails and was not cancelled makes the app exit.
update_device_failure(wk) ==
    /\ running
    /\ wk.phase = "failure"
    /\ versions' = Store(versions, wk.path, "error")
    /\ workers' = workers \ {wk}
    /\ IF wk.path \in rows
       THEN /\ query_stats' = [query_stats EXCEPT !.completed = @ + 1,
                                                  !.failed = @ + 1]
            /\ running' = running
       ELSE /\ query_stats' = query_stats
            /\ running' = wk.cancelled
    /\ UNCHANGED <<devices, rows, active_workers, refreshes, quiet, qvars,
                   cvars, fvars, mvars>>

\* any step of one worker thread
WorkerStep(wk) ==
    \/ WorkerConnect(wk)
    \/ WorkerQuery(wk)
    \/ update_device_success(wk)
    \/ update_device_failure(wk)

TNext ==
    \/ action_refresh
    \/ \E wk \in workers : WorkerConnect(wk)
    \/ \E wk \in workers : WorkerQuery(wk)
    \/ \E wk \in workers : update_device_success(wk)
    \/ \E wk \in workers : update_device_failure(wk)

(***************************************************************************)
(* Specifications                                                          *)
(***************************************************************************)
InitQ == QInit /\ CIdle /\ devices = <<>> /\ TIdle /\ FIdle /\ MIdle
SpecQ == InitQ /\ [][QNext]_vars

InitCli == QIdle /\ CInit /\ devices = <<>> /\ TIdle /\ FIdle /\ MIdle
SpecCli == InitCli /\ [][CNext]_vars

\* check_all_devices is straight-line code with two for-loops: it keeps
\* running until it returns.
FairCli == SpecCli /\ WF_vars(CNext)

InitTui == QIdle /\ CIdle /\ devices = <<>> /\ TInit /\ FIdle /\ MIdle
SpecTui == InitTui /\ [][TNext]_vars

InitFn == QIdle /\ CIdle /\ devices = <<>> /\ TIdle /\ FInit /\ MIdle
SpecFn == InitFn /\ [][FNext]_vars

InitMain == QIdle /\ CIdle /\ devices = <<>> /\ TIdle /\ FIdle /\ MInit
SpecMain == InitMain /\ [][MNext]_vars

\* Threads run and the main thread runs the callbacks handed to it; nothing
\* obliges the user to refresh.
FairTui ==
    /\ SpecTui
    /\ WF_vars(\E wk \in workers : WorkerStep(wk))

(***************************************************************************)
(* Properties of core.query_device (SpecQ)                                 *)
(***************************************************************************)
Count(seq, x) == Cardinality({i \in 1..Len(seq) : seq[i] = x})
Called(x) == Count(calls, x) > 0

Returned == pc = "done"
\* the transport was opened: the call got past core.py:203
Opened == Called("open") /\ result.tag # "DeviceNotFoundError"
\* raw mode was entered: the call got past core.py:209
RawModeEntered == Called("exec_raw")
\* exec_raw returned the device's output: the call got past core.py:213
ExecReturned == Called("exit_raw_repl")

\* C1: every call that opened the transport has called transport.close()
\* exactly once by the time it returns or raises.
C1_ClosedExactlyOnce ==
    (Returned /\ Opened) => Count(calls, "close") = 1

\* C3: when the output was received and closing went well but the parser
\* finds a required field missing, empty or unknown, the call fails with
\* ParseError, whose message carries the raw text.
C3_ParseErrorSurfaces ==
    (Returned /\ exc.step = "parse")
        => /\ result.tag = "ParseError"
           /\ result.msg = parse_uname_output(output_str).msg

\* C4: a failure after a successful connect is a QueryTimeoutError exactly
\* when the timeout elapsed in enter_raw_repl or exec_raw.
C4_TimeoutIffTimedOut ==
    (Returned /\ Opened /\ exc # NoExc)
        => (result.tag = "QueryTimeoutError" <=> exc.kind = "timeout")

\* C9: once raw mode was entered, exit_raw_repl has been attempted by the
\* time the call returns or raises.
C9_ExitRawAlwaysAttempted ==
    (Returned /\ RawModeEntered) => Called("exit_raw_repl")

\* C10: when exec_raw returned an output that parses to a complete Version,
\* the call returns that Version, whatever exit_raw_repl and close do.
C10_CloseFailureNeverEscalates ==
    (Returned /\ ExecReturned
        /\ parse_uname_output(output_str).tag = "Version")
        => result = parse_uname_output(output_str)

\* C11: the caller's timeout is one budget for the whole exchange: the
\* ticks spent in enter_raw_repl and exec_raw together never exceed it.
C11_OneOverallBudget ==
    elapsed <= timeout

\* C12: when exec_raw timed out after the device had sent some bytes, those
\* bytes are decoded and parsed: the call ends with the Version or the
\* ParseError of the partial text, not with a timeout error.
C12_PartialOutputParsed ==
    (Returned /\ exc.step = "exec_raw" /\ exc.kind = "timeout"
        /\ received # <<>>)
        => /\ output_str = Strip(Decode(received))
           /\ result.tag \in {"Version", "ParseError"}

\* C16: a call whose open failed raises DeviceNotFoundError after that one
\* open, with no enter_raw_repl, exec_raw, exit_raw_repl or close; and
\* DeviceNotFoundError is raised in no other case.
C16_OpenFailureStopsAtOpen ==
    /\ (Returned /\ Called("open") /\ ~Called("enter_raw_repl"))
          => result.tag = "DeviceNotFoundError" /\ calls = <<"open">>
    /\ result.tag = "DeviceNotFoundError"
          => Returned /\ calls = <<"open">>
    /\ pc = "connect" => calls = <<>>
C16_Witness ==
    Returned /\ result.tag = "DeviceNotFoundError" /\ calls = <<"open">>

\* the transport calls other than close, in the order they were made
ProtocolSteps == SelectSeq(calls, LAMBDA c : c # "close")

\* C23: the steps of one call follow the order open, enter_raw_repl,
\* exec_raw, exit_raw_repl, each at most once and each only after the one
\* before it went well; the parser runs only after exec_raw returned, on
\* the output it returned.
C23_ProtocolOrder ==
    /\ ProtocolSteps =
          SubSeq(<<"open", "enter_raw_repl", "exec_raw", "exit_raw_repl">>,
                 1, Len(ProtocolSteps))
    /\ Called("enter_raw_repl") => result.tag # "DeviceNotFoundError"
    /\ Called("exec_raw") => exc.step # "enter_raw_repl"
    /\ Called("exit_raw_repl")
          => exc.step # "exec_raw" /\ output_str = Strip(Decode(received))
    /\ (pc = "parse" \/ exc.step = "parse" \/ result.tag = "Version")
          => /\ Called("exec_raw") /\ Called("exit_raw_repl")
             /\ output_str = Strip(Decode(received))
    /\ exc.step = "parse"
          => exc.msg = parse_uname_output(Strip(Decode(received))).msg
    /\ result.tag = "Version"
          => result = parse_uname_output(Strip(Decode(received)))
C23_Witness ==
    /\ Returned
    /\ result.tag = "Version"
    /\ calls = <<"open", "enter_raw_repl", "exec_raw", "exit_raw_repl", "close">>
    /\ received # output_str

(***************************************************************************)
(* Properties of cli.check_all_devices (SpecCli)                           *)
(***************************************************************************)
QueriesOf(path, pass) ==
    {i \in 1..Len(queries) : queries[i].path = path /\ queries[i].pass = pass}
FailedIn(path, pass) ==
    \E i \in QueriesOf(path, pass) : queries[i].outcome # "Version"
SucceededIn(path, pass) ==
    \E i \in QueriesOf(path, pass) : queries[i].outcome = "Version"
\* the outcome of the last query of the device
FinalOutcome(path) ==
    LET qs == QueriesOf(path, 1) \cup QueriesOf(path, 2)
    IN  queries[CHOOSE i \in qs : \A j \in qs : j <= i].outcome

\* C5: when check_all_devices returns, a device that failed the first pass
\* and succeeded on the retry ends as a success and is not in the tally, a
\* device that failed both passes ends as a failure and is counted once,
\* and the value returned is the number of devices whose retry failed.
C5_RetryTally ==
    cpc = "done" =>
        LET StillFailing == {p \in Paths(devices) : FailedIn(p, 2)}
        IN  /\ ret = Cardinality(StillFailing)
            /\ \A p \in Paths(devices) :
                 /\ Cardinality(QueriesOf(p, 2)) <= 1
                 /\ (FailedIn(p, 1) /\ SucceededIn(p, 2))
                       => FinalOutcome(p) = "Version" /\ p \notin StillFailing
                 /\ (FailedIn(p, 1) /\ FailedIn(p, 2))
                       => FinalOutcome(p) # "Version" /\ p \in StillFailing

\* One device recovered on the retry, the other failed twice.
C5_Witness ==
    /\ cpc = "done"
    /\ ret = 1
    /\ \E p, r \in Paths(devices) :
         /\ FailedIn(p, 1) /\ SucceededIn(p, 2)
         /\ FailedIn(r, 1) /\ FailedIn(r, 2)

\* the retry-pass iterations that found their device, and those whose
\* query failed again
Requeried == {i \in 1..Len(retries) : retries[i].found # None}
StillFailing ==
    {i \in Requeried : queries[retries[i].query].outcome # "Version"}

\* C13: when check_all_devices returns, a device of the retry list that
\* find_device did not find was not queried again and is not in the value
\* returned, which is the number of devices found again whose retry failed.
C13_DroppedNotCounted ==
    cpc = "done" =>
        /\ Len(retries) = Len(failed)
        /\ \A i \in 1..Len(retries) :
             retries[i].found = None
                => retries[i].query = 0
                   /\ QueriesOf(retries[i].identifier, 2) = {}
        /\ Cardinality({i \in 1..Len(queries) : queries[i].pass = 2})
              = Cardinality(Requeried)
        /\ ret = Cardinality(StillFailing)
C13_Witness ==
    /\ cpc = "done"
    /\ ret = 1
    /\ \E i, j \in 1..Len(retries) :
         /\ retries[i].found = None
         /\ j \in StillFailing

\* the part of C14 that every state satisfies: at most two queries per
\* device, none after a first-pass success, at most 2N in all
AtMostTwice ==
    /\ Len(queries) <= 2 * Len(devices)
    /\ \A p \in Paths(devices) :
         /\ Cardinality(QueriesOf(p, 1)) <= 1
         /\ Cardinality(QueriesOf(p, 2)) <= 1
         /\ SucceededIn(p, 1) => QueriesOf(p, 2) = {}
    /\ \A i \in 1..Len(queries) : queries[i].path \in Paths(devices)

\* C14 as stated: one bounded retry pass, and every device whose first-pass
\* query failed, whatever the error, has been queried a second time when
\* check_all_devices returns.
C14_EveryFailureRetried ==
    /\ AtMostTwice
    /\ cpc = "done" =>
          \A p \in Paths(devices) :
              FailedIn(p, 1) => Cardinality(QueriesOf(p, 2)) = 1

\* C14, amended: one bounded retry pass, and the run ends; when it returns,
\* every device whose first-pass query failed, whatever the error, has gone
\* through the retry pass once and was queried a second time if find_device
\* still found it.
C14_BoundedRetry ==
    /\ [](AtMostTwice)
    /\ [](cpc = "done" =>
            \A p \in Paths(devices) :
                FailedIn(p, 1) =>
                    /\ Cardinality({i \in 1..Len(retries) :
                                       retries[i].identifier = p}) = 1
                    /\ \A i \in 1..Len(retries) :
                         (retries[i].identifier = p /\ retries[i].found # None)
                            => Cardinality(QueriesOf(p, 2)) = 1)
    /\ <>(cpc \in {"done", "raised"})
C14_Witness ==
    /\ cpc = "done"
    /\ Len(devices) = 2
    /\ Len(queries) = 4
    /\ queries[1].outcome = "QueryTimeoutError"
    /\ queries[2].outcome = "DeviceNotFoundError"

\* C15: in the retry pass, a board whose first-pass query failed and that
\* is now attached under another path is found by find_device and queried
\* at its new path.
C15_RequeriedAtNewPath ==
    \A i \in 1..Len(retries) :
        (retries[i].now_at # None /\ retries[i].now_at # retries[i].identifier)
            => /\ retries[i].found = retries[i].now_at
               /\ retries[i].query # 0
               /\ queries[retries[i].query].path = retries[i].now_at

\* the errors of core (core.py:11-28)
Taxonomy ==
    {"DeviceError", "DeviceNotFoundError", "QueryTimeoutError", "ParseError"}

\* C25: every query_device call of check_all_devices ends with a Version or
\* with an error of the DeviceError taxonomy, so no failure leaves
\* check_all_devices: the first pass queries every device.
C25_EveryFailureCaught ==
    /\ \A i \in 1..Len(queries) :
         queries[i].outcome \in {"Version"} \cup Taxonomy
    /\ cpc # "raised"
    /\ cpc \in {"retry", "done"}
          => \A p \in Paths(devices) : Cardinality(QueriesOf(p, 1)) = 1

(***************************************************************************)
(* Properties of cli.main (SpecMain)                                       *)
(***************************************************************************)
\* C22: when a device is given and has been queried, the process ends with
\* status 0 if the query gave a Version and with another status if it
\* failed, with and without --json.
C22_ExitStatusTellsFailure ==
    (mpc = "done" /\ Given(args.device) /\ ended # "none")
        => (status = 0 <=> ended = "Version")

(***************************************************************************)
(* Properties of the functions of core that keep no state (SpecFn)         *)
(***************************************************************************)
ReturnedFrom(fn) == fpc = "return" /\ call.fn = fn

\* the level at which a device matches an identifier: 1 its path is the
\* resolved or the original identifier, 2 its stable path is the identifier,
\* 3 its serial number is the identifier, 0 none of these
MatchLevel(dev, identifier) ==
    IF dev.path = resolve_shortcut(identifier) \/ dev.path = identifier THEN 1
    ELSE IF dev.by_id_path = identifier THEN 2
    ELSE IF dev.serial_number = identifier THEN 3
    ELSE 0

\* C17: find_device searches every port of the catalog, hardware UARTs
\* included; it returns the match of the best level (path, then stable
\* path, then serial number), among several of that level the first in
\* catalog order, and None exactly when no device matches at any level.
C17_FindPriority ==
    ReturnedFrom("find_device") =>
        LET all     == {DeviceInfo(port) : port \in call.ports}
            matches == {d \in all : MatchLevel(d, call.text) # 0}
        IN  IF matches = {} THEN retval = NoDevice
            ELSE /\ retval \in matches
                 /\ \A d \in matches \ {retval} :
                      \/ MatchLevel(retval, call.text) < MatchLevel(d, call.text)
                      \/ /\ MatchLevel(retval, call.text) = MatchLevel(d, call.text)
                         /\ StrLess(retval.path, d.path)
C17_Witness ==
    /\ ReturnedFrom("find_device")
    /\ retval # NoDevice
    /\ MatchLevel(retval, call.text) = 2
    /\ \E p, q \in call.ports :
         /\ MatchLevel(DeviceInfo(p), call.text) = 3
         /\ StrLess(p.device, retval.path)
         /\ MatchLevel(DeviceInfo(q), call.text) = 0
         /\ Head(q.device) = "/dev/ttyS"

\* C18: parse_uname_output ends in one of two ways: it returns a Version
\* whose sysname, release, version and machine are all non-empty and not
\* "unknown", or it raises ParseError.
C18_ParseTotal ==
    ReturnedFrom("parse_uname_output") =>
        \/ retval.tag = "ParseError"
        \/ /\ retval.tag = "Version"
           /\ \A f \in RequiredFields :
                retval.version[f] # <<>> /\ retval.version[f] # UNKNOWN
C18_Witness ==
    /\ ReturnedFrom("parse_uname_output")
    /\ retval.tag = "ParseError"
    /\ extract_field(call.text, "sysname") = X
    /\ extract_field(call.text, "release") = <<>>
    /\ extract_field(call.text, "machine") = UNKNOWN

\* the paths of a list of devices, in order
PathsInOrder(devs) == [i \in 1..Len(devs) |-> devs[i].path]
StartsWithTtyS(path) == path # <<>> /\ Head(path) = "/dev/ttyS"

\* C19: discover_devices returns the devices in ascending order of path;
\* without include_ttyS it leaves out exactly the ports whose path starts
\* with /dev/ttyS, with include_ttyS it leaves out none; the filtered list
\* is the unfiltered list with the excluded ports removed.
C19_SortedAndFiltered ==
    ReturnedFrom("discover_devices") =>
        LET Kept(dev)  == call.include_ttyS \/ ~StartsWithTtyS(dev.path)
            unfiltered == discover_devices(call.ports, TRUE)
        IN  /\ \A i, j \in 1..Len(retval) :
                 i < j => StrLess(retval[i].path, retval[j].path)
            /\ Paths(retval) =
                 {port.device : port \in
                     {q \in call.ports :
                         call.include_ttyS \/ ~StartsWithTtyS(q.device)}}
            /\ Paths(unfiltered) = {port.device : port \in call.ports}
            /\ retval = SelectSeq(unfiltered, Kept)
C19_Witness ==
    /\ ReturnedFrom("discover_devices")
    /\ ~call.include_ttyS
    /\ PathsInOrder(retval) = << <<"/dev/ttyACM", "0">>, <<"/dev/ttyUSB", "0">> >>
    /\ Cardinality(call.ports) = 3

\* C21: every device of the list discover_devices returns has vid and pid
\* both set or both None.
C21_VidPidTogether ==
    ReturnedFrom("discover_devices") =>
        \A i \in 1..Len(retval) :
            (retval[i].vid = None) <=> (retval[i].pid = None)

\* the value of the occurrence of field=<quoted value> that starts first in
\* the text, in either quote style; None when there is no occurrence
FirstOccurrence(text, field) ==
    LET Closes(i, q) == {j \in (i + 3)..Len(text) : text[j] = q}
        starts == {i \in 1..Len(text) :
                      /\ i + 3 <= Len(text)
                      /\ text[i] = field
                      /\ text[i + 1] = "="
                      /\ text[i + 2] \in {"'", "\""}
                      /\ Closes(i, text[i + 2]) # {}}
    IN  IF starts = {} THEN None
        ELSE LET i == Min(starts)
             IN  SubSeq(text, i + 3, Min(Closes(i, text[i + 2])) - 1)

\* C24: for each field the parser takes the value of the occurrence that
\* comes first in the text, single- or double-quoted.
C24_FirstOccurrenceWins ==
    (ReturnedFrom("parse_uname_output") /\ retval.tag = "Version") =>
        \A f \in RequiredFields :
            retval.version[f] = OrUnknown(FirstOccurrence(call.text, f))

\* the tokens C20 names: the letter followed by one or more digits
IsShortcut(token, letter) ==
    token # <<>> /\ Head(token) = letter /\ AllDigits(Tail(token))

\* C20: resolve_shortcut maps a<digits> to /dev/ttyACM<digits>, u<digits>
\* to /dev/ttyUSB<digits> and c<digits> to COM<digits>, returns every other
\* token unchanged, and resolving its result again changes nothing.
C20_ShortcutsOnly ==
    ReturnedFrom("resolve_shortcut") =>
        /\ IsShortcut(call.text, "a")
              => retval = <<"/dev/ttyACM">> \o Tail(call.text)
        /\ IsShortcut(call.text, "u")
              => retval = <<"/dev/ttyUSB">> \o Tail(call.text)
        /\ IsShortcut(call.text, "c")
              => retval = <<"COM">> \o Tail(call.text)
        /\ (\A l \in {"a", "u", "c"} : ~IsShortcut(call.text, l))
              => retval = call.text
        /\ resolve_shortcut(retval) = retval

(***************************************************************************)
(* Properties of tui.MPyDevicesApp (SpecTui, FairTui)                      *)
(***************************************************************************)
\* the main thread runs a callback of worker wk in this step
Delivers(wk) == wk.phase \in {"success", "failure"} /\ wk \notin workers'
\* worker wk belongs to a previous poll: a later refresh started the queries
\* of a new poll and cancel_workers went over wk
Stale(wk) == wk.gen < refreshes /\ wk.cancelled

\* C2: the completion of a worker of a previous poll changes neither the
\* result map nor the progress counters.
C2_StaleResultsDiscarded ==
    [][\A wk \in workers :
          (Delivers(wk) /\ Stale(wk))
              => versions' = versions /\ query_stats' = query_stats]_vars

\* C6: no two workers are inside query_device with the serial transport of
\* the same device path open.
C6_OneQueryPerDevice ==
    \A v, w \in workers :
        (v # w /\ v.phase = "holding" /\ w.phase = "holding") => v.path # w.path

\* C8: completed = success + failed and completed <= total.
C8_CountersConsistent ==
    /\ query_stats.completed = query_stats.success + query_stats.failed
    /\ query_stats.completed <= query_stats.total

\* C26: the counters agree with the result map: success is the number of
\* entries of versions that hold a Version, failed the number that hold
\* an error.
C26_CountersMatchVersions ==
    /\ query_stats.success =
          Cardinality({p \in DOMAIN versions : versions[p] = "Version"})
    /\ query_stats.failed =
          Cardinality({p \in DOMAIN versions : versions[p] = "error"})

\* a poll that started with no query in flight and has not been refreshed
QuietPoll == quiet /\ refreshes > 0

ExactlyOneEntryPerDevice ==
    /\ DOMAIN versions = Paths(devices)
    /\ Cardinality(DOMAIN versions) = Len(devices)
    /\ \A p \in DOMAIN versions : versions[p] \in {"Version", "error"}

\* C7: a poll of N devices that no refresh interrupts completes all its N
\* queries, in whatever order, and the result map then has exactly one
\* entry per device path, a Version or an error.
C7_AllCompleteExactlyN ==
    /\ [](QuietPoll /\ AllDone => ExactlyOneEntryPerDevice)
    /\ (QuietPoll ~> (~QuietPoll \/ (AllDone /\ ExactlyOneEntryPerDevice)))

\* Two devices polled, both queries over, one Version and one error.
C7_Witness ==
    /\ QuietPoll
    /\ AllDone
    /\ Len(devices) = 2
    /\ Cardinality(DOMAIN versions) = 2
    /\ \E p, r \in DOMAIN versions : versions[p] = "Version" /\ versions[r] = "error"

====
